---- MODULE Spec2Model ----
(***************************************************************************)
(* A model of the B+ tree of src/src/storage/index/b_plus_tree.cpp: the    *)
(* header page, the node pages, the page latches handed out by the buffer  *)
(* pool, and every tree operation as the sequence of steps between two     *)
(* latch acquisitions.                                                     *)
(*                                                                         *)
(* Slots are numbered from 0 in the code and from 1 in the sequences of    *)
(* the model: slot i of a page is element i + 1 of its key and val.        *)
(***************************************************************************)
EXTENDS Integers, Sequences, FiniteSets, TLC

(***************************************************************************)
(* Bounds of the model.                                                    *)
(***************************************************************************)
MaxKey == 4
MaxInserts == 4
NumThreads == 2
MaxConcCalls == 1
MaxDeepCalls == 1

Keys == 0..MaxKey
Threads == 1..NumThreads

(***************************************************************************)
(* Program constants.  The page classes and the buffer pool are not part   *)
(* of the source file: the capacities that Init() gives a page when it is  *)
(* called without an argument are scaled down to small numbers.            *)
(***************************************************************************)
INVALID_PAGE_ID == -1
header_page_id_ == 0
LEAF_PAGE_SIZE == 3
INTERNAL_PAGE_SIZE == 3

\* The constructor's leaf_max_size and internal_max_size arguments.
LeafMaxSizes == {LEAF_PAGE_SIZE, LEAF_PAGE_SIZE + 1}
InternalMaxSizes == {INTERNAL_PAGE_SIZE}

(***************************************************************************)
(* What a slot or a header field of a fresh page holds before the code     *)
(* writes it: zero bytes, or whatever an earlier use of the frame left.    *)
(* The kind tag of a fresh page is taken not to be LEAF_PAGE.              *)
(***************************************************************************)
FreshKeys == {0, MaxKey}
FreshMaxSizes == {0, INTERNAL_PAGE_SIZE}
\* The key of internal slot 0, which no code path writes.
Sentinel == -1
\* What the bytes in front of slot 0 of a leaf read as a key: some key, or
\* a bit pattern that equals no key.
OutOfRangeKeys == FreshKeys \cup {Sentinel}

\* The value the n-th Insert call passes with key k.
ValueFor(k, n) == 100 * n + k

VARIABLES
    leaf_max_size_,      \* constructor argument, stored and never read again
    internal_max_size_,  \* constructor argument, stored and never read again
    root_page_id_,       \* the header page's root_page_id_
    pages,               \* node pages: page id p is pages[p]
    th,                  \* per thread: position and locals of its operation
    ncalls,              \* number of Insert calls made
    hist,                \* the Insert calls that returned, in order of return
    todo                 \* per thread: the calls a concurrent run still lets it make

vars == <<leaf_max_size_, internal_max_size_, root_page_id_, pages, th, ncalls, hist, todo>>

(***************************************************************************)
(* Page accessors.                                                         *)
(***************************************************************************)
IsPage(p) == p \in 1..Len(pages)
NumLeaves(pgs) == Cardinality({p \in 1..Len(pgs) : pgs[p].leaf})
KeyAt(page, i) == page.key[i + 1]
ValueAt(page, i) == page.val[i + 1]

\* comparator_(a, b): -1, 0 or 1
comparator_(a, b) == IF a < b THEN -1 ELSE IF a > b THEN 1 ELSE 0

(***************************************************************************)
(* BinaryFind: the loop shared by both overloads, then the two epilogues.  *)
(***************************************************************************)
RECURSIVE BinaryFindLoop(_, _, _, _)
BinaryFindLoop(page, key, l, r) ==
    IF l < r
    THEN LET mid == (l + r + 1) \div 2
         IN  IF comparator_(KeyAt(page, mid), key) # 1
             THEN BinaryFindLoop(page, key, mid, r)
             ELSE BinaryFindLoop(page, key, l, mid - 1)
    ELSE r

BinaryFindLeaf(leaf_page, key) ==
    LET r == BinaryFindLoop(leaf_page, key, 0, leaf_page.size - 1)
    IN  IF r >= 0 /\ comparator_(KeyAt(leaf_page, r), key) = 1 THEN -1 ELSE r

BinaryFindInternal(internal_page, key) ==
    LET r == BinaryFindLoop(internal_page, key, 1, internal_page.size - 1)
    IN  IF r = -1 \/ comparator_(KeyAt(internal_page, r), key) = 1 THEN 0 ELSE r

(***************************************************************************)
(* MoveRight: one more slot, slots pos.. shifted right by one.  Slot pos   *)
(* keeps what it held (the caller overwrites it).                          *)
(***************************************************************************)
MoveRight(page, pos) ==
    LET n == page.size + 1
        shift(s) == [i \in 1..n |->
                        IF i - 1 > pos THEN s[i - 1]
                        ELSE IF i <= page.size THEN s[i] ELSE Sentinel]
    IN  [page EXCEPT !.size = n, !.key = shift(page.key), !.val = shift(page.val)]

SetAt(page, i, key, value) ==
    [page EXCEPT !.key = [j \in 1..page.size |-> IF j = i + 1 THEN key ELSE page.key[j]],
                 !.val = [j \in 1..page.size |-> IF j = i + 1 THEN value ELSE page.val[j]]]

(***************************************************************************)
(* InsertAt, internal page.                                                *)
(***************************************************************************)
InsertAtInternal(page, key, value) ==
    LET pos == BinaryFindInternal(page, key)
    IN  SetAt(MoveRight(page, pos + 1), pos + 1, key, value)

(***************************************************************************)
(* InsertAt, leaf page.  With pos = -1 the comparison reads the key in     *)
(* front of slot 0, which is outside the slot array: before is what those  *)
(* bytes hold.                                                             *)
(***************************************************************************)
InsertAtLeafFails(page, key, before) ==
    LET pos == BinaryFindLeaf(page, key)
    IN  comparator_(IF pos = -1 THEN before ELSE KeyAt(page, pos), key) = 0

InsertAtLeaf(page, key, value) ==
    LET pos == BinaryFindLeaf(page, key)
    IN  SetAt(MoveRight(page, pos + 1), pos + 1, key, value)

(***************************************************************************)
(* SplitPage.  Both overloads copy the values of slots lsize.. and the     *)
(* keys of slots lsize + 1.. only: slot 0 of the new page keeps the key    *)
(* the fresh frame held (fresh, for a leaf; never read for an internal     *)
(* page).  Each returns the two pages and mid_key.                         *)
(***************************************************************************)
\* SplitInternal with the new page given the kind of the leaf overload.
SplitInternalAsLeaf(lpage) ==
    LET lsize == lpage.size \div 2
        rsize == lpage.size - lsize
    IN  [mid_key |-> KeyAt(lpage, lsize),
         lpage |-> [lpage EXCEPT !.size = lsize,
                                 !.key = SubSeq(lpage.key, 1, lsize),
                                 !.val = SubSeq(lpage.val, 1, lsize)],
         rpage |-> [leaf |-> TRUE, size |-> rsize, max |-> LEAF_PAGE_SIZE,
                    key |-> [i \in 1..rsize |->
                                IF i = 1 THEN Sentinel ELSE lpage.key[lsize + i]],
                    val |-> [i \in 1..rsize |-> lpage.val[lsize + i]],
                    next |-> INVALID_PAGE_ID]]

SplitInternal(lpage) ==
    LET lsize == lpage.size \div 2
        rsize == lpage.size - lsize
    IN  [mid_key |-> KeyAt(lpage, lsize),
         lpage |-> [lpage EXCEPT !.size = lsize,
                                 !.key = SubSeq(lpage.key, 1, lsize),
                                 !.val = SubSeq(lpage.val, 1, lsize)],
         rpage |-> [leaf |-> FALSE, size |-> rsize, max |-> INTERNAL_PAGE_SIZE,
                    key |-> [i \in 1..rsize |->
                                IF i = 1 THEN Sentinel ELSE lpage.key[lsize + i]],
                    val |-> [i \in 1..rsize |-> lpage.val[lsize + i]],
                    next |-> INVALID_PAGE_ID]]

SplitLeaf(lpage, new_page_id, fresh) ==
    LET lsize == lpage.size \div 2
        rsize == lpage.size - lsize
    IN  [mid_key |-> KeyAt(lpage, lsize),
         lpage |-> [lpage EXCEPT !.size = lsize,
                                 !.key = SubSeq(lpage.key, 1, lsize),
                                 !.val = SubSeq(lpage.val, 1, lsize),
                                 !.next = new_page_id],
         rpage |-> [leaf |-> TRUE, size |-> rsize, max |-> LEAF_PAGE_SIZE,
                    key |-> [i \in 1..rsize |->
                                IF i = 1 THEN fresh ELSE lpage.key[lsize + i]],
                    val |-> [i \in 1..rsize |-> lpage.val[lsize + i]],
                    next |-> lpage.next]]

\* SplitPage that hands the last key of an internal page to the parent.
SplitPageLastKey(page, new_page_id, fresh) ==
    IF page.leaf
    THEN SplitLeaf(page, new_page_id, fresh)
    ELSE [mid_key |-> KeyAt(page, page.size - 1),
          lpage |-> SplitInternal(page).lpage,
          rpage |-> SplitInternal(page).rpage]

SplitPage(page, new_page_id, fresh) ==
    IF page.leaf THEN SplitLeaf(page, new_page_id, fresh) ELSE SplitInternal(page)

(***************************************************************************)
(* The split cascade of Insert: while more than one guard is kept, split   *)
(* the deepest kept page, pop it, and insert (mid_key, new page) into the  *)
(* page above.  pgs is the page table, ws the kept guards (write_set_).    *)
(***************************************************************************)
RECURSIVE Cascade(_, _, _)
Cascade(pgs, ws, fresh) ==
    IF Len(ws) > 1
    THEN LET back == ws[Len(ws)]
             rpage_id == Len(pgs) + 1
             s == SplitPage(pgs[back], rpage_id, fresh)
             ws2 == SubSeq(ws, 1, Len(ws) - 1)
             x_page == ws2[Len(ws2)]
             pgs2 == Append([pgs EXCEPT ![back] = s.lpage], s.rpage)
             pgs3 == [pgs2 EXCEPT ![x_page] = InsertAtInternal(pgs2[x_page], s.mid_key, rpage_id)]
         IN  Cascade(pgs3, ws2, fresh)
    ELSE [pages |-> pgs, write_set_ |-> ws]

(***************************************************************************)
(* Root growth: a fresh page becomes the new root without Init(), so its   *)
(* max_size is what the frame held (fresh_max); then the old top page is   *)
(* split.                                                                  *)
(***************************************************************************)
GrowRoot(pgs, top, fresh, fresh_max) ==
    LET new_root_id == Len(pgs) + 1
        rpage_id == Len(pgs) + 2
        s == SplitPage(pgs[top], rpage_id, fresh)
        new_root_page == [leaf |-> FALSE, size |-> 2, max |-> fresh_max,
                          key |-> <<Sentinel, s.mid_key>>,
                          val |-> <<top, rpage_id>>,
                          next |-> INVALID_PAGE_ID]
    IN  Append(Append([pgs EXCEPT ![top] = s.lpage], new_root_page), s.rpage)

(***************************************************************************)
(* Latches.  A guard latches its page from construction to destruction;    *)
(* which guards a thread holds is part of its state.                       *)
(***************************************************************************)
Range(s) == {s[i] : i \in 1..Len(s)}

HeldWrite(t) ==
    (IF th[t].header_page_ THEN {header_page_id_} ELSE {})
        \cup Range(th[t].write_set_)
        \cup (IF th[t].new_root_guard # INVALID_PAGE_ID THEN {th[t].new_root_guard} ELSE {})

HeldRead(t) ==
    (IF th[t].head_guard THEN {header_page_id_} ELSE {})
        \cup (IF th[t].guard # INVALID_PAGE_ID THEN {th[t].guard} ELSE {})
        \cup (IF th[t].fetched # INVALID_PAGE_ID THEN {th[t].fetched} ELSE {})

WriteLatched(p) == \E t \in Threads : p \in HeldWrite(t)
ReadLatched(p) == \E t \in Threads : p \in HeldRead(t)

\* FetchPageWrite(p) and FetchPageRead(p) return once the latch is free.
CanFetchWrite(p) == ~WriteLatched(p) /\ ~ReadLatched(p)
CanFetchRead(p) == ~WriteLatched(p)

(***************************************************************************)
(* A thread outside any operation; op, key, ret, result and it keep what   *)
(* its last operation was and returned.  The last five fields record what  *)
(* the operation did: the page ids it asked the buffer pool for, whether   *)
(* it wrote to a page or to root_page_id_, how many pages it allocated,    *)
(* the size its leaf had right after InsertAt, and how many leaves it      *)
(* split.                                                                  *)
(***************************************************************************)
NoIterator == [page |-> INVALID_PAGE_ID, slot |-> -1]

Idle == [pc |-> "idle", op |-> "none", key |-> 0, value |-> 0,
         header_page_ |-> FALSE, ctx_root_page_id_ |-> INVALID_PAGE_ID,
         write_set_ |-> <<>>, x |-> INVALID_PAGE_ID,
         new_root_guard |-> INVALID_PAGE_ID,
         head_guard |-> FALSE, guard |-> INVALID_PAGE_ID, fetched |-> INVALID_PAGE_ID,
         ret |-> FALSE, result |-> <<>>, it |-> NoIterator,
         requested |-> {}, modified |-> FALSE, allocated |-> 0,
         leaf_size |-> 0, leaf_splits |-> 0]

Call(op, pc, key, value) ==
    [Idle EXCEPT !.pc = pc, !.op = op, !.key = key, !.value = value]

\* Every guard of the operation goes out of scope; what it returned stays.
Return(r) ==
    [r EXCEPT !.pc = "idle", !.header_page_ = FALSE,
              !.ctx_root_page_id_ = INVALID_PAGE_ID, !.write_set_ = <<>>,
              !.x = INVALID_PAGE_ID, !.new_root_guard = INVALID_PAGE_ID,
              !.head_guard = FALSE, !.guard = INVALID_PAGE_ID,
              !.fetched = INVALID_PAGE_ID]

Init ==
    /\ leaf_max_size_ \in LeafMaxSizes
    /\ internal_max_size_ \in InternalMaxSizes
    /\ root_page_id_ = INVALID_PAGE_ID
    /\ pages = <<>>
    /\ th = [t \in Threads |-> Idle]
    /\ ncalls = 0
    /\ hist = <<>>
    /\ todo = [t \in Threads |-> IF t = 1 THEN -1 ELSE 0]

config == <<leaf_max_size_, internal_max_size_>>

\* A thread may make a call while it has calls left; a negative count is
\* no limit.
Budget(t) ==
    /\ todo[t] # 0
    /\ todo' = [todo EXCEPT ![t] = IF @ > 0 THEN @ - 1 ELSE @]

(***************************************************************************)
(* Insert.                                                                 *)
(***************************************************************************)
CallInsert(t, key) ==
    /\ th[t].pc = "idle"
    /\ Budget(t)
    \* a thread with no limit of calls makes MaxInserts Insert calls at most
    /\ ncalls < MaxInserts \/ todo[t] > 0
    /\ ncalls' = ncalls + 1
    /\ th' = [th EXCEPT ![t] = Call("Insert", "ins_header", key, ValueFor(key, ncalls + 1))]
    /\ UNCHANGED <<config, root_page_id_, pages, hist>>

\* ctx.header_page_ = FetchPageWrite(header_page_id_)
InsertLatchHeader(t) ==
    /\ th[t].pc = "ins_header"
    /\ CanFetchWrite(header_page_id_)
    /\ th' = [th EXCEPT ![t].header_page_ = TRUE, ![t].pc = "ins_start",
                        ![t].requested = @ \cup {header_page_id_}]
    /\ UNCHANGED <<config, root_page_id_, pages, ncalls, hist, todo>>

\* The operation wrote to a page or to the header in this step.
Wrote == pages' # pages \/ root_page_id_' # root_page_id_

\* InsertStart without SetNextPageId(INVALID_PAGE_ID) on the first leaf:
\* next_page_id_ stays what the zero-filled frame reads as, page id 0.
InsertStartNoNext(t) ==
    /\ th[t].pc = "ins_start"
    /\ UNCHANGED <<config, ncalls, todo>>
    /\ IF root_page_id_ = INVALID_PAGE_ID
       THEN /\ pages' = Append(pages, [leaf |-> TRUE, size |-> 1, max |-> LEAF_PAGE_SIZE,
                                       key |-> <<th[t].key>>, val |-> <<th[t].value>>,
                                       next |-> 0])
            /\ root_page_id_' = Len(pages) + 1
            /\ th' = [th EXCEPT ![t] = Return([@ EXCEPT
                                !.ret = TRUE,
                                !.modified = TRUE,
                                !.allocated = 1,
                                !.leaf_size = 1])]
            /\ hist' = Append(hist, [key |-> th[t].key, value |-> th[t].value, ret |-> TRUE])
       ELSE /\ th' = [th EXCEPT ![t].ctx_root_page_id_ = root_page_id_,
                                ![t].header_page_ = FALSE,
                                ![t].x = root_page_id_,
                                ![t].pc = "ins_fetch"]
            /\ UNCHANGED <<root_page_id_, pages, hist>>

\* Under the header latch: start a new tree, or remember the root and
\* release the header.
InsertStart(t) ==
    /\ th[t].pc = "ins_start"
    /\ UNCHANGED <<config, ncalls, todo>>
    /\ IF root_page_id_ = INVALID_PAGE_ID
       THEN /\ pages' = Append(pages, [leaf |-> TRUE, size |-> 1, max |-> LEAF_PAGE_SIZE,
                                       key |-> <<th[t].key>>, val |-> <<th[t].value>>,
                                       next |-> INVALID_PAGE_ID])
            /\ root_page_id_' = Len(pages) + 1
            /\ th' = [th EXCEPT ![t] = Return([@ EXCEPT
                                !.ret = TRUE,
                                !.modified = @ \/ Wrote,
                                !.allocated = Len(pages') - Len(pages),
                                !.leaf_size = 1])]
            /\ hist' = Append(hist, [key |-> th[t].key, value |-> th[t].value, ret |-> TRUE])
       ELSE /\ th' = [th EXCEPT ![t].ctx_root_page_id_ = root_page_id_,
                                ![t].header_page_ = FALSE,
                                ![t].x = root_page_id_,
                                ![t].pc = "ins_fetch"]
            /\ UNCHANGED <<root_page_id_, pages, hist>>

\* KeptGuards without the release of the ancestors at a safe page.
KeptGuardsNoRelease(write_set_, x, x_page) == Append(write_set_, x)

\* The guards kept once page x is latched: all of them at the leaf and
\* under an unsafe internal page, only x's under a safe one.
KeptGuards(write_set_, x, x_page) ==
    IF ~x_page.leaf /\ x_page.size < x_page.max - 1
    THEN <<x>>
    ELSE Append(write_set_, x)

\* The child an internal page routes key to.
ChildFor(x_page, key) == ValueAt(x_page, BinaryFindInternal(x_page, key))

\* One turn of the descent loop: latch x, keep its guard, and unless it is
\* the leaf drop the guards above a safe page and pick the child.
InsertFetch(t) ==
    LET x == th[t].x
        x_page == pages[x]
        kept == KeptGuards(th[t].write_set_, x, x_page)
    IN  /\ th[t].pc = "ins_fetch"
        /\ CanFetchWrite(x)
        /\ th' = [th EXCEPT ![t] =
                    IF x_page.leaf
                    THEN [@ EXCEPT !.write_set_ = kept, !.pc = "ins_leaf",
                                   !.requested = @ \cup {x}]
                    ELSE [@ EXCEPT !.write_set_ = kept,
                                   !.x = ChildFor(x_page, th[t].key),
                                   !.requested = @ \cup {x}]]
        /\ UNCHANGED <<config, root_page_id_, pages, ncalls, hist, todo>>

\* At the leaf: InsertAt, the split cascade, and the split of the topmost
\* kept page under a new root.
InsertLeaf(t, before, fresh, fresh_max) ==
    LET r == th[t]
        ws == r.write_set_
        leaf == ws[Len(ws)]
        inserted == [pages EXCEPT ![leaf] = InsertAtLeaf(pages[leaf], r.key, r.value)]
        c == Cascade(inserted, ws, fresh)
        top == c.write_set_[1]
        temp_page == c.pages[top]
        did(rec) == [rec EXCEPT !.modified = @ \/ Wrote,
                                !.allocated = Len(pages') - Len(pages),
                                !.leaf_size = inserted[leaf].size,
                                !.leaf_splits = NumLeaves(pages') - NumLeaves(pages)]
    IN  /\ r.pc = "ins_leaf"
        /\ UNCHANGED <<config, root_page_id_, ncalls, todo>>
        /\ IF InsertAtLeafFails(pages[leaf], r.key, before)
           THEN /\ UNCHANGED pages
                /\ th' = [th EXCEPT ![t] = Return([@ EXCEPT !.ret = FALSE,
                                                            !.modified = @ \/ Wrote])]
                /\ hist' = Append(hist, [key |-> r.key, value |-> r.value, ret |-> FALSE])
           ELSE IF temp_page.size = temp_page.max
           THEN /\ pages' = GrowRoot(c.pages, top, fresh, fresh_max)
                /\ th' = [th EXCEPT ![t] = did([@ EXCEPT
                                    !.write_set_ = c.write_set_,
                                    !.new_root_guard = Len(c.pages) + 1,
                                    !.pc = "ins_root_header"])]
                /\ UNCHANGED hist
           ELSE /\ pages' = c.pages
                /\ th' = [th EXCEPT ![t] = Return(did([@ EXCEPT !.ret = TRUE]))]
                /\ hist' = Append(hist, [key |-> r.key, value |-> r.value, ret |-> TRUE])

\* InsertLatchRootHeader without the FetchPageWrite: root growth goes on to
\* set root_page_id_ with no header latch.
InsertSkipRootHeader(t) ==
    /\ th[t].pc = "ins_root_header"
    /\ th' = [th EXCEPT ![t].pc = "ins_root_set"]
    /\ UNCHANGED <<config, root_page_id_, pages, ncalls, hist, todo>>

\* ctx.header_page_ = FetchPageWrite(header_page_id_), the kept guards held
InsertLatchRootHeader(t) ==
    /\ th[t].pc = "ins_root_header"
    /\ CanFetchWrite(header_page_id_)
    /\ th' = [th EXCEPT ![t].header_page_ = TRUE, ![t].pc = "ins_root_set"]
    /\ UNCHANGED <<config, root_page_id_, pages, ncalls, hist, todo>>

InsertSetRoot(t) ==
    /\ th[t].pc = "ins_root_set"
    /\ UNCHANGED <<config, pages, ncalls, todo>>
    /\ root_page_id_' = th[t].new_root_guard
    /\ th' = [th EXCEPT ![t] = Return([@ EXCEPT !.ret = TRUE, !.modified = @ \/ Wrote])]
    /\ hist' = Append(hist, [key |-> th[t].key, value |-> th[t].value, ret |-> TRUE])

(***************************************************************************)
(* GetValue.  guard = FetchPageRead(x) latches x first and only then drops *)
(* the guard it replaces; fetched is the guard not yet assigned.           *)
(***************************************************************************)
CallGetValue(t, key) ==
    /\ th[t].pc = "idle"
    /\ Budget(t)
    /\ th' = [th EXCEPT ![t] = Call("GetValue", "get_header", key, 0)]
    /\ UNCHANGED <<config, root_page_id_, pages, ncalls, hist>>

\* guard = FetchPageRead(header_page_id_); x = root_page_id_
GetValueLatchHeader(t) ==
    /\ th[t].pc = "get_header"
    /\ header_page_id_ # INVALID_PAGE_ID
    /\ CanFetchRead(header_page_id_)
    /\ th' = [th EXCEPT ![t].guard = header_page_id_,
                        ![t].x = root_page_id_,
                        ![t].requested = @ \cup {header_page_id_},
                        ![t].pc = "get_fetch"]
    /\ UNCHANGED <<config, root_page_id_, pages, ncalls, hist, todo>>

\* GetValueFetch with the old guard dropped before FetchPageRead(x) is
\* called rather than by the assignment after it.
GetValueFetchAfterDrop(t) ==
    LET x == th[t].x
    IN  /\ th[t].pc = "get_fetch"
        /\ IF IsPage(x)
           THEN /\ CanFetchRead(x)
                /\ th' = [th EXCEPT ![t].guard = INVALID_PAGE_ID,
                                    ![t].fetched = x,
                                    ![t].requested = @ \cup {x},
                                    ![t].pc = "get_assign"]
           ELSE th' = [th EXCEPT ![t].requested = @ \cup {x}, ![t].pc = "fault"]
        /\ UNCHANGED <<config, root_page_id_, pages, ncalls, hist, todo>>

\* FetchPageRead(x), the old guard still held.  A page id that names no
\* page gives a guard over no page, and the operation does not return.
GetValueFetch(t) ==
    LET x == th[t].x
    IN  /\ th[t].pc = "get_fetch"
        /\ IF IsPage(x)
           THEN /\ CanFetchRead(x)
                /\ th' = [th EXCEPT ![t].fetched = x,
                                    ![t].requested = @ \cup {x},
                                    ![t].pc = "get_assign"]
           ELSE th' = [th EXCEPT ![t].requested = @ \cup {x}, ![t].pc = "fault"]
        /\ UNCHANGED <<config, root_page_id_, pages, ncalls, hist, todo>>

\* The assignment drops the old guard; then the loop test, and either the
\* choice of the child or the search of the leaf.
GetValueAssign(t) ==
    LET r == th[t]
        x_page == pages[r.fetched]
        pos == BinaryFindLeaf(x_page, r.key)
        held == [r EXCEPT !.guard = r.fetched, !.fetched = INVALID_PAGE_ID]
    IN  /\ r.pc = "get_assign"
        /\ th' = [th EXCEPT ![t] =
                    IF ~x_page.leaf
                    THEN [held EXCEPT !.x = ChildFor(x_page, r.key), !.pc = "get_fetch"]
                    ELSE IF pos < 0 \/ comparator_(KeyAt(x_page, pos), r.key) # 0
                    THEN Return([held EXCEPT !.ret = FALSE])
                    ELSE Return([held EXCEPT !.ret = TRUE,
                                             !.result = Append(@, ValueAt(x_page, pos))])]
        /\ UNCHANGED <<config, root_page_id_, pages, ncalls, hist, todo>>

(***************************************************************************)
(* Remove: the body is empty.                                              *)
(***************************************************************************)
Remove(t, key) ==
    /\ th[t].pc = "idle"
    /\ Budget(t)
    /\ th' = [th EXCEPT ![t] = Return(Call("Remove", "idle", key, 0))]
    /\ UNCHANGED <<config, root_page_id_, pages, ncalls, hist>>

(***************************************************************************)
(* Begin() and Begin(key).  The header guard is dropped after the root is  *)
(* latched.  An iterator is a page id and a slot; End() is (-1, -1).       *)
(***************************************************************************)
End == [page |-> INVALID_PAGE_ID, slot |-> -1]

CallBegin(t) ==
    /\ th[t].pc = "idle"
    /\ Budget(t)
    /\ th' = [th EXCEPT ![t] = Call("Begin", "begin_header", 0, 0)]
    /\ UNCHANGED <<config, root_page_id_, pages, ncalls, hist>>

BeginLatchHeader(t) ==
    /\ th[t].pc = "begin_header"
    /\ CanFetchRead(header_page_id_)
    /\ th' = [th EXCEPT ![t] =
                IF root_page_id_ = INVALID_PAGE_ID
                THEN Return([@ EXCEPT !.it = End, !.requested = @ \cup {header_page_id_}])
                ELSE [@ EXCEPT !.head_guard = TRUE, !.x = root_page_id_,
                               !.requested = @ \cup {header_page_id_},
                               !.pc = "begin_root"]]
    /\ UNCHANGED <<config, root_page_id_, pages, ncalls, hist, todo>>

\* What Begin() does with the page it has just latched: return the
\* iterator at a leaf, go on to child 0 otherwise.
BeginAt(r, p) ==
    IF pages[p].leaf
    THEN Return([r EXCEPT !.it = [page |-> p, slot |-> 0]])
    ELSE [r EXCEPT !.x = ValueAt(pages[p], 0), !.pc = "begin_fetch"]

\* guard = FetchPageRead(root) under the header guard; head_guard.Drop()
BeginFetchRoot(t) ==
    LET x == th[t].x
    IN  /\ th[t].pc = "begin_root"
        /\ CanFetchRead(x)
        /\ th' = [th EXCEPT ![t] = BeginAt([@ EXCEPT !.guard = x, !.head_guard = FALSE,
                                                     !.requested = @ \cup {x}], x)]
        /\ UNCHANGED <<config, root_page_id_, pages, ncalls, hist, todo>>

BeginFetch(t) ==
    LET x == th[t].x
    IN  /\ th[t].pc = "begin_fetch"
        /\ CanFetchRead(x)
        /\ th' = [th EXCEPT ![t].fetched = x, ![t].requested = @ \cup {x},
                            ![t].pc = "begin_assign"]
        /\ UNCHANGED <<config, root_page_id_, pages, ncalls, hist, todo>>

BeginAssign(t) ==
    LET r == th[t]
    IN  /\ r.pc = "begin_assign"
        /\ th' = [th EXCEPT ![t] = BeginAt([r EXCEPT !.guard = r.fetched,
                                                     !.fetched = INVALID_PAGE_ID], r.fetched)]
        /\ UNCHANGED <<config, root_page_id_, pages, ncalls, hist, todo>>

CallBeginKey(t, key) ==
    /\ th[t].pc = "idle"
    /\ Budget(t)
    /\ th' = [th EXCEPT ![t] = Call("BeginKey", "beginkey_header", key, 0)]
    /\ UNCHANGED <<config, root_page_id_, pages, ncalls, hist>>

BeginKeyLatchHeader(t) ==
    /\ th[t].pc = "beginkey_header"
    /\ CanFetchRead(header_page_id_)
    /\ th' = [th EXCEPT ![t] =
                IF root_page_id_ = INVALID_PAGE_ID
                THEN Return([@ EXCEPT !.it = End, !.requested = @ \cup {header_page_id_}])
                ELSE [@ EXCEPT !.head_guard = TRUE, !.x = root_page_id_,
                               !.requested = @ \cup {header_page_id_},
                               !.pc = "beginkey_root"]]
    /\ UNCHANGED <<config, root_page_id_, pages, ncalls, hist, todo>>

\* What Begin(key) does with the page it has just latched.
BeginKeyAt(r, p) ==
    LET slot_num == IF pages[p].leaf
                    THEN BinaryFindLeaf(pages[p], r.key)
                    ELSE BinaryFindInternal(pages[p], r.key)
    IN  IF slot_num = -1
        THEN Return([r EXCEPT !.it = End])
        ELSE IF pages[p].leaf
        THEN Return([r EXCEPT !.it = [page |-> p, slot |-> slot_num]])
        ELSE [r EXCEPT !.x = ValueAt(pages[p], slot_num), !.pc = "beginkey_fetch"]

BeginKeyFetchRoot(t) ==
    LET x == th[t].x
    IN  /\ th[t].pc = "beginkey_root"
        /\ CanFetchRead(x)
        /\ th' = [th EXCEPT ![t] = BeginKeyAt([@ EXCEPT !.guard = x, !.head_guard = FALSE,
                                                        !.requested = @ \cup {x}], x)]
        /\ UNCHANGED <<config, root_page_id_, pages, ncalls, hist, todo>>

BeginKeyFetch(t) ==
    LET x == th[t].x
    IN  /\ th[t].pc = "beginkey_fetch"
        /\ CanFetchRead(x)
        /\ th' = [th EXCEPT ![t].fetched = x, ![t].requested = @ \cup {x},
                            ![t].pc = "beginkey_assign"]
        /\ UNCHANGED <<config, root_page_id_, pages, ncalls, hist, todo>>

BeginKeyAssign(t) ==
    LET r == th[t]
    IN  /\ r.pc = "beginkey_assign"
        /\ th' = [th EXCEPT ![t] = BeginKeyAt([r EXCEPT !.guard = r.fetched,
                                                        !.fetched = INVALID_PAGE_ID], r.fetched)]
        /\ UNCHANGED <<config, root_page_id_, pages, ncalls, hist, todo>>

(***************************************************************************)
(* The next-state relation: any thread takes its next step.                *)
(***************************************************************************)
Next ==
    \E t \in Threads :
        \/ \E key \in Keys : CallInsert(t, key)
        \/ InsertLatchHeader(t)
        \/ InsertStart(t)
        \/ InsertFetch(t)
        \/ \E before \in OutOfRangeKeys, fresh \in FreshKeys, fresh_max \in FreshMaxSizes :
              InsertLeaf(t, before, fresh, fresh_max)
        \/ InsertLatchRootHeader(t)
        \/ InsertSetRoot(t)
        \/ \E key \in Keys : CallGetValue(t, key)
        \/ GetValueLatchHeader(t)
        \/ GetValueFetch(t)
        \/ GetValueAssign(t)
        \/ \E key \in Keys : Remove(t, key)
        \/ CallBegin(t)
        \/ BeginLatchHeader(t)
        \/ BeginFetchRoot(t)
        \/ BeginFetch(t)
        \/ BeginAssign(t)
        \/ \E key \in Keys : CallBeginKey(t, key)
        \/ BeginKeyLatchHeader(t)
        \/ BeginKeyFetchRoot(t)
        \/ BeginKeyFetch(t)
        \/ BeginKeyAssign(t)

\* One thread makes any number of calls, one after the other.
Spec == Init /\ [][Next]_vars(***************************************************************************)
(* The concurrent runs start from the constructed, empty tree or from the  *)
(* tree that Insert(1), Insert(3) leave behind, and every thread makes     *)
(* MaxConcCalls calls.                                                     *)
(***************************************************************************)
InitConc ==
    /\ leaf_max_size_ = LEAF_PAGE_SIZE
    /\ internal_max_size_ = INTERNAL_PAGE_SIZE
    /\ th = [t \in Threads |-> Idle]
    /\ todo = [t \in Threads |-> MaxConcCalls]
    /\ \/ /\ root_page_id_ = INVALID_PAGE_ID
          /\ pages = <<>>
          /\ ncalls = 0
          /\ hist = <<>>
       \/ /\ root_page_id_ = 1
          /\ pages = <<InsertAtLeaf([leaf |-> TRUE, size |-> 1, max |-> LEAF_PAGE_SIZE,
                                     key |-> <<1>>, val |-> <<ValueFor(1, 1)>>,
                                     next |-> INVALID_PAGE_ID], 3, ValueFor(3, 2))>>
          /\ ncalls = 2
          /\ hist = <<[key |-> 1, value |-> ValueFor(1, 1), ret |-> TRUE],
                      [key |-> 3, value |-> ValueFor(3, 2), ret |-> TRUE]>>

SpecConc == InitConc /\ [][Next]_vars

(***************************************************************************)
(* The operations run from start to end with no other thread in between,   *)
(* as functions of the tree.                                               *)
(***************************************************************************)
\* The leaf GetValue's descent from page x ends at.
RECURSIVE LeafFor(_, _, _)
LeafFor(pgs, x, key) ==
    IF pgs[x].leaf THEN x ELSE LeafFor(pgs, ChildFor(pgs[x], key), key)

\* What GetValue(key) returns and appends on the tree as it is now.
GetValueNow(key) ==
    IF ~IsPage(root_page_id_)
    THEN [fault |-> TRUE, ret |-> FALSE, result |-> <<>>]
    ELSE LET leaf_page == pages[LeafFor(pages, root_page_id_, key)]
             pos == BinaryFindLeaf(leaf_page, key)
         IN  IF pos < 0 \/ comparator_(KeyAt(leaf_page, pos), key) # 0
             THEN [fault |-> FALSE, ret |-> FALSE, result |-> <<>>]
             ELSE [fault |-> FALSE, ret |-> TRUE, result |-> <<ValueAt(leaf_page, pos)>>]

\* The guards Insert keeps on its way from page x to the leaf.
RECURSIVE InsertPath(_, _, _, _)
InsertPath(pgs, x, key, write_set_) ==
    LET kept == KeptGuards(write_set_, x, pgs[x])
    IN  IF pgs[x].leaf THEN kept ELSE InsertPath(pgs, ChildFor(pgs[x], key), key, kept)

\* The tree (its pages and root) after Insert(key, value) on tree.
InsertNow(tree, key, value, before, fresh, fresh_max) ==
    IF tree.root = INVALID_PAGE_ID
    THEN [pages |-> <<[leaf |-> TRUE, size |-> 1, max |-> LEAF_PAGE_SIZE,
                       key |-> <<key>>, val |-> <<value>>, next |-> INVALID_PAGE_ID]>>,
          root |-> 1]
    ELSE LET ws == InsertPath(tree.pages, tree.root, key, <<>>)
             leaf == ws[Len(ws)]
             inserted == [tree.pages EXCEPT ![leaf] = InsertAtLeaf(tree.pages[leaf], key, value)]
             c == Cascade(inserted, ws, fresh)
             top == c.write_set_[1]
         IN  IF InsertAtLeafFails(tree.pages[leaf], key, before)
             THEN tree
             ELSE IF c.pages[top].size = c.pages[top].max
             THEN [pages |-> GrowRoot(c.pages, top, fresh, fresh_max), root |-> Len(c.pages) + 1]
             ELSE [pages |-> c.pages, root |-> tree.root]

(***************************************************************************)
(* The deep runs start from any tree that MaxInserts Insert calls of one   *)
(* thread leave behind, and thread 1 makes MaxDeepCalls calls more.        *)
(***************************************************************************)
\* The trees after n Insert calls, each with the calls that led to it.
RECURSIVE AfterInserts(_)
AfterInserts(n) ==
    IF n = 0
    THEN {[tree |-> [pages |-> <<>>, root |-> INVALID_PAGE_ID], hist |-> <<>>]}
    ELSE UNION {{LET tree == InsertNow(s.tree, key, ValueFor(key, n), g[1], g[2], g[3])
                 IN  [tree |-> tree,
                      hist |-> Append(s.hist, [key |-> key, value |-> ValueFor(key, n),
                                               ret |-> tree # s.tree])]
                    : key \in Keys, g \in OutOfRangeKeys \X FreshKeys \X FreshMaxSizes}
                   : s \in AfterInserts(n - 1)}

InitDeep ==
    /\ leaf_max_size_ = LEAF_PAGE_SIZE
    /\ internal_max_size_ = INTERNAL_PAGE_SIZE
    /\ \E s \in AfterInserts(MaxInserts) :
           /\ pages = s.tree.pages
           /\ root_page_id_ = s.tree.root
           /\ hist = s.hist
    /\ ncalls = MaxInserts
    /\ th = [t \in Threads |-> Idle]
    /\ todo = [t \in Threads |-> IF t = 1 THEN MaxDeepCalls ELSE 0]

SpecDeep == InitDeep /\ [][Next]_vars

(***************************************************************************)
(* Concurrent runs on a two-level tree: the tree after Insert(2),          *)
(* Insert(4), Insert(3), whose root page found INTERNAL_PAGE_SIZE in its   *)
(* max_size field.  Thread 1 makes one call more than the other threads.   *)
(***************************************************************************)
TwoLevelHistory ==
    <<[key |-> 2, value |-> ValueFor(2, 1), ret |-> TRUE],
      [key |-> 4, value |-> ValueFor(4, 2), ret |-> TRUE],
      [key |-> 3, value |-> ValueFor(3, 3), ret |-> TRUE]>>

RECURSIVE TreeAfter(_, _, _)
TreeAfter(calls, fresh, fresh_max) ==
    IF calls = <<>>
    THEN [pages |-> <<>>, root |-> INVALID_PAGE_ID]
    ELSE LET n == Len(calls)
         IN  InsertNow(TreeAfter(SubSeq(calls, 1, n - 1), fresh, fresh_max),
                       calls[n].key, calls[n].value, Sentinel, fresh, fresh_max)

InitTwoLevel ==
    /\ leaf_max_size_ = LEAF_PAGE_SIZE
    /\ internal_max_size_ = INTERNAL_PAGE_SIZE
    /\ th = [t \in Threads |-> Idle]
    /\ todo = [t \in Threads |-> IF t = 1 THEN MaxConcCalls + 1 ELSE MaxConcCalls]
    /\ \E fresh \in {0} :
           /\ pages = TreeAfter(TwoLevelHistory, fresh, INTERNAL_PAGE_SIZE).pages
           /\ root_page_id_ = TreeAfter(TwoLevelHistory, fresh, INTERNAL_PAGE_SIZE).root
    /\ ncalls = Len(TwoLevelHistory)
    /\ hist = TwoLevelHistory

SpecTwoLevel == InitTwoLevel /\ [][Next]_vars

(***************************************************************************)
(* The iterator (index_iterator is not part of the source file): it walks  *)
(* the slots of its leaf, then follows next_page_id, up to End().          *)
(***************************************************************************)
RECURSIVE ScanFrom(_, _, _)
ScanFrom(p, slot, fuel) ==
    IF ~IsPage(p) \/ fuel = 0
    THEN <<>>
    ELSE IF slot < pages[p].size
    THEN <<[key |-> KeyAt(pages[p], slot), value |-> ValueAt(pages[p], slot)]>>
             \o ScanFrom(p, slot + 1, fuel)
    ELSE ScanFrom(pages[p].next, 0, fuel - 1)

Scan(it) == ScanFrom(it.page, it.slot, Len(pages) + 1)

(***************************************************************************)
(* What the calls so far should have left in the tree.                     *)
(***************************************************************************)
\* The keys whose Insert returned true.
InsertedKeys == {hist[i].key : i \in {j \in 1..Len(hist) : hist[j].ret}}

\* The value of the first Insert of key that returned true.
InsertedValue(key) ==
    hist[CHOOSE i \in 1..Len(hist) :
            /\ hist[i].key = key /\ hist[i].ret
            /\ \A j \in 1..(i - 1) : ~(hist[j].key = key /\ hist[j].ret)].value

\* No two Insert calls so far passed the same key.
DistinctKeys == \A i, j \in 1..Len(hist) : i # j => hist[i].key # hist[j].key

\* The stored pairs with key >= k, in ascending key order.
RECURSIVE StoredFrom(_)
StoredFrom(k) ==
    IF k > MaxKey
    THEN <<>>
    ELSE (IF k \in InsertedKeys
          THEN <<[key |-> k, value |-> InsertedValue(k)]>>
          ELSE <<>>) \o StoredFrom(k + 1)

\* Thread 1 is between two calls, and its last call was op.
Returned(op) == th[1].pc = "idle" /\ th[1].op = op

(***************************************************************************)
(* C1.  Round trip: after Insert calls with pairwise distinct keys,        *)
(* GetValue(k) returns true and appends exactly the value inserted with k  *)
(* for every inserted key k, and returns false and appends nothing for a   *)
(* key never inserted.                                                     *)
(***************************************************************************)
C1_RoundTrip ==
    (Returned("GetValue") /\ DistinctKeys) =>
        IF th[1].key \in InsertedKeys
        THEN th[1].ret /\ th[1].result = <<InsertedValue(th[1].key)>>
        ELSE ~th[1].ret /\ th[1].result = <<>>

(***************************************************************************)
(* C2.  Insert(k, v) returns false if and only if k is already in the tree *)
(* when it is called (an earlier Insert of k returned true); and when it   *)
(* returns false it has modified no page and allocated none.               *)
(***************************************************************************)
PresentBefore(key) ==
    \E i \in 1..(Len(hist) - 1) : hist[i].key = key /\ hist[i].ret

C2_InsertFalseIffPresent ==
    Returned("Insert") =>
        /\ ~th[1].ret <=> PresentBefore(th[1].key)
        /\ ~th[1].ret => (~th[1].modified /\ th[1].allocated = 0)

(***************************************************************************)
(* C3.  After Remove(k) returns, GetValue(k) returns false.                *)
(***************************************************************************)
C3_RemovedKeyNotFound ==
    Returned("Remove") => ~GetValueNow(th[1].key).ret

(***************************************************************************)
(* C4.  On an empty tree GetValue returns false, asks the buffer pool for  *)
(* no page but the header page, and appends nothing.                       *)
(***************************************************************************)
C4_GetValueOnEmptyTree ==
    (th[1].op = "GetValue" /\ root_page_id_ = INVALID_PAGE_ID) =>
        /\ th[1].requested \subseteq {header_page_id_}
        /\ th[1].pc # "fault"
        /\ th[1].pc = "idle" => (~th[1].ret /\ th[1].result = <<>>)

(***************************************************************************)
(* C5.  No deadlock: no reachable state has a set of threads each blocked  *)
(* on a latch that another thread of the set holds.                        *)
(***************************************************************************)
\* The page whose latch thread t is waiting to be given, if any.
WaitsForWrite(t) ==
    IF th[t].pc \in {"ins_header", "ins_root_header"} THEN {header_page_id_}
    ELSE IF th[t].pc = "ins_fetch" THEN {th[t].x}
    ELSE {}

WaitsForRead(t) ==
    IF th[t].pc \in {"get_header", "begin_header", "beginkey_header"} THEN {header_page_id_}
    ELSE IF th[t].pc \in {"get_fetch", "begin_root", "begin_fetch",
                          "beginkey_root", "beginkey_fetch"} THEN {th[t].x}
    ELSE {}

\* Thread u holds a latch that keeps thread t waiting.
Blocks(u, t) ==
    /\ u # t
    /\ \/ WaitsForWrite(t) \cap (HeldWrite(u) \cup HeldRead(u)) # {}
       \/ WaitsForRead(t) \cap HeldWrite(u) # {}

Deadlock ==
    \E S \in SUBSET Threads :
        /\ S # {}
        /\ \A t \in S : \E u \in S : Blocks(u, t)

C5_NoDeadlock == ~Deadlock

(***************************************************************************)
(* C6.  When the threads insert disjoint keys concurrently, the final tree *)
(* is, up to page ids, a tree that some serialization of those Insert      *)
(* calls produces, and GetValue finds every inserted pair in it.           *)
(***************************************************************************)
\* A tree without its page ids: a leaf is its pairs, an internal page its
\* routing keys and the trees under its children.
RECURSIVE Shape(_, _)
Shape(pgs, p) ==
    IF pgs[p].leaf
    THEN [leaf |-> TRUE, key |-> pgs[p].key, val |-> pgs[p].val]
    ELSE [leaf |-> FALSE, key |-> Tail(pgs[p].key),
          sub |-> [i \in 1..pgs[p].size |-> Shape(pgs, pgs[p].val[i])]]

\* The trees that the Insert calls of the threads in S leave, run one
\* after the other in any order from tree.
RECURSIVE SerialTrees(_, _)
SerialTrees(tree, S) ==
    IF S = {}
    THEN {tree}
    ELSE UNION {UNION {SerialTrees(InsertNow(tree, th[t].key, th[t].value, g[1], g[2], g[3]),
                                   S \ {t})
                          : g \in OutOfRangeKeys \X FreshKeys \X FreshMaxSizes}
                   : t \in S}

\* The non-empty tree the concurrent runs start from.
ConcInitialTree ==
    [pages |-> <<InsertAtLeaf([leaf |-> TRUE, size |-> 1, max |-> LEAF_PAGE_SIZE,
                               key |-> <<1>>, val |-> <<ValueFor(1, 1)>>,
                               next |-> INVALID_PAGE_ID], 3, ValueFor(3, 2))>>,
     root |-> 1]

\* Every thread has made its one call, an Insert, and no key was passed twice.
ConcInsertsDone ==
    /\ \A t \in Threads : th[t].pc = "idle" /\ th[t].op = "Insert" /\ todo[t] = 0
    /\ Len(hist) = 2 + NumThreads
    /\ DistinctKeys

C6_ConcurrentInsertsSerializable ==
    ConcInsertsDone =>
        /\ Shape(pages, root_page_id_) \in
               {Shape(tree.pages, tree.root) : tree \in SerialTrees(ConcInitialTree, Threads)}
        /\ \A k \in InsertedKeys :
               GetValueNow(k).ret /\ GetValueNow(k).result = <<InsertedValue(k)>>

(***************************************************************************)
(* C7.  With leaf_max_size = L given to the constructor, Insert splits a   *)
(* leaf exactly when the insertion brings that leaf's size to L.           *)
(***************************************************************************)
C7_SplitExactlyAtLeafMaxSize ==
    (Returned("Insert") /\ th[1].ret) =>
        (th[1].leaf_splits > 0 <=> th[1].leaf_size = leaf_max_size_)

(***************************************************************************)
(* C8.  Scan completeness: after inserts, the scan from Begin() to End()   *)
(* yields exactly the stored pairs, each once, in ascending key order.     *)
(***************************************************************************)
C8_ScanCompleteness ==
    Returned("Begin") => Scan(th[1].it) = StoredFrom(0)

(***************************************************************************)
(* C9.  Range start: on a non-empty tree Begin(k) positions the cursor on  *)
(* the smallest stored key >= k, and returns End() only when no stored key *)
(* is >= k.                                                                *)
(***************************************************************************)
C9_RangeStart ==
    (Returned("BeginKey") /\ root_page_id_ # INVALID_PAGE_ID) =>
        LET later == StoredFrom(th[1].key)
        IN  IF later = <<>>
            THEN th[1].it = End
            ELSE /\ th[1].it # End
                 /\ KeyAt(pages[th[1].it.page], th[1].it.slot) = later[1].key

(***************************************************************************)
(* C10.  I1 ordering and uniqueness: after every Insert the keys of every  *)
(* leaf are strictly increasing and no key is in two leaf slots.           *)
(***************************************************************************)
LeafSlots == {<<p, i>> \in (1..Len(pages)) \X (1..(MaxInserts + 1)) :
                 pages[p].leaf /\ i <= pages[p].size}

C10_LeafKeysOrderedAndUnique ==
    Returned("Insert") =>
        /\ \A p \in 1..Len(pages) :
               pages[p].leaf =>
                   \A i \in 1..(pages[p].size - 1) : pages[p].key[i] < pages[p].key[i + 1]
        /\ \A a, b \in LeafSlots :
               a # b => pages[a[1]].key[a[2]] # pages[b[1]].key[b[2]]

(***************************************************************************)
(* The tree under the root, as the invariants of the tree speak of it.     *)
(***************************************************************************)
\* The keys in the leaf slots of the subtree under page p.
RECURSIVE SubtreeKeys(_, _)
SubtreeKeys(pgs, p) ==
    IF pgs[p].leaf
    THEN {pgs[p].key[i] : i \in 1..pgs[p].size}
    ELSE UNION {SubtreeKeys(pgs, pgs[p].val[i]) : i \in 1..pgs[p].size}

\* The pages of the subtree under page p, p included.
RECURSIVE SubtreePages(_, _)
SubtreePages(pgs, p) ==
    IF pgs[p].leaf
    THEN {p}
    ELSE {p} \cup UNION {SubtreePages(pgs, pgs[p].val[i]) : i \in 1..pgs[p].size}

TreePages == IF IsPage(root_page_id_) THEN SubtreePages(pages, root_page_id_) ELSE {}

(***************************************************************************)
(* C11.  I2 routing: after every Insert, for every internal node and every *)
(* slot i >= 1, every key in the subtree under child i is >= key i and     *)
(* every key in the subtree under child i - 1 is < key i.                  *)
(***************************************************************************)
C11_Routing ==
    Returned("Insert") =>
        \A p \in TreePages :
            ~pages[p].leaf =>
                \A i \in 1..(pages[p].size - 1) :
                    /\ \A k \in SubtreeKeys(pages, ValueAt(pages[p], i)) :
                           k >= KeyAt(pages[p], i)
                    /\ \A k \in SubtreeKeys(pages, ValueAt(pages[p], i - 1)) :
                           k < KeyAt(pages[p], i)

(***************************************************************************)
(* C12.  I4 occupancy: after every Insert every non-root node has          *)
(* ceil(max_size / 2) <= size <= max_size - 1, and every non-root internal *)
(* node has size >= 2.                                                     *)
(***************************************************************************)
GetMinSize(page) == (page.max + 1) \div 2

C12_Occupancy ==
    Returned("Insert") =>
        \A p \in TreePages \ {root_page_id_} :
            /\ GetMinSize(pages[p]) <= pages[p].size
            /\ pages[p].size <= pages[p].max - 1
            /\ ~pages[p].leaf => pages[p].size >= 2

(***************************************************************************)
(* C13.  I5 chain: after every Insert, following next_page_id from the     *)
(* leftmost leaf (child 0 all the way down from the root) visits every     *)
(* leaf of the tree exactly once, in ascending key order, and ends at      *)
(* INVALID_PAGE_ID.                                                        *)
(***************************************************************************)
RECURSIVE LeftmostLeaf(_, _)
LeftmostLeaf(pgs, p) ==
    IF pgs[p].leaf THEN p ELSE LeftmostLeaf(pgs, ValueAt(pgs[p], 0))

\* The leaves met from leaf p along next_page_id, at most fuel of them.
RECURSIVE ChainFrom(_, _, _)
ChainFrom(pgs, p, fuel) ==
    IF ~(p \in 1..Len(pgs)) \/ fuel = 0
    THEN <<>>
    ELSE <<p>> \o ChainFrom(pgs, pgs[p].next, fuel - 1)

LeafChain == ChainFrom(pages, LeftmostLeaf(pages, root_page_id_), Len(pages) + 1)

LeafKeys(p) == {pages[p].key[i] : i \in 1..pages[p].size}

\* The chain holds every leaf of the tree once and ends at INVALID_PAGE_ID.
ChainVisitsEveryLeafOnce ==
    /\ Range(LeafChain) = {p \in TreePages : pages[p].leaf}
    /\ Cardinality(Range(LeafChain)) = Len(LeafChain)
    /\ pages[LeafChain[Len(LeafChain)]].next = INVALID_PAGE_ID

C13_LeafChain ==
    Returned("Insert") =>
        /\ ChainVisitsEveryLeafOnce
        /\ \A i \in 1..(Len(LeafChain) - 1) :
               \A a \in LeafKeys(LeafChain[i]), b \in LeafKeys(LeafChain[i + 1]) : a < b

(***************************************************************************)
(* C14.  I3 balance: after every Insert, every path from the page named by *)
(* root_page_id_ to a leaf has the same length.                            *)
(***************************************************************************)
\* The lengths, in pages, of the paths from page p down to a leaf.
RECURSIVE PathLengths(_, _)
PathLengths(pgs, p) ==
    IF pgs[p].leaf
    THEN {1}
    ELSE {d + 1 : d \in UNION {PathLengths(pgs, pgs[p].val[i]) : i \in 1..pgs[p].size}}

C14_Balance ==
    Returned("Insert") => Cardinality(PathLengths(pages, root_page_id_)) = 1

\* An Insert has split an internal root: the tree is three pages deep.
C14_Witness ==
    Returned("Insert") /\ PathLengths(pages, root_page_id_) = {3}

(***************************************************************************)
(* C15.  After construction IsEmpty() is true.  The first Insert(k, v)     *)
(* allocates one leaf holding exactly the pair (k, v) with next_page_id    *)
(* INVALID_PAGE_ID, sets root_page_id_ to it while it holds the header     *)
(* write latch, and returns true; IsEmpty() is false from then on.         *)
(***************************************************************************)
IsEmpty == root_page_id_ = INVALID_PAGE_ID

\* The step that makes the tree non-empty is thread t's first Insert.
FirstInsertBy(t) ==
    /\ th[t].op = "Insert"
    /\ th[t].header_page_
    /\ Len(pages') = Len(pages) + 1
    /\ root_page_id_' = Len(pages')
    /\ pages'[root_page_id_'].leaf
    /\ pages'[root_page_id_'].size = 1
    /\ pages'[root_page_id_'].key = <<th[t].key>>
    /\ pages'[root_page_id_'].val = <<th[t].value>>
    /\ pages'[root_page_id_'].next = INVALID_PAGE_ID
    /\ th'[t].pc = "idle"
    /\ th'[t].ret

C15_FirstInsert ==
    /\ [](IsEmpty <=> hist = <<>>)
    /\ [][~IsEmpty => ~IsEmpty']_vars
    /\ [][(IsEmpty /\ ~IsEmpty') => \E t \in Threads : FirstInsertBy(t)]_vars

\* The first Insert has returned.
C15_Witness ==
    Returned("Insert") /\ Len(hist) = 1 /\ ~IsEmpty /\ Len(pages) = 1

(***************************************************************************)
(* C16.  GetValue, Begin() and Begin(key) release the header latch before  *)
(* they ask for the latch of the root: no such call holds the header latch *)
(* while it requests the latch of a node page.                             *)
(***************************************************************************)
C16_HeaderReleasedBeforeRoot ==
    \A t \in Threads :
        (/\ th[t].op \in {"GetValue", "Begin", "BeginKey"}
         /\ \E p \in WaitsForRead(t) : IsPage(p))
            => header_page_id_ \notin HeldRead(t)

(***************************************************************************)
(* C17.  In every interleaving, root_page_id_ in the header page is        *)
(* written only by a thread that holds the header page's write latch at    *)
(* that moment.                                                            *)
(***************************************************************************)
C17_RootWrittenUnderHeaderLatch ==
    [][root_page_id_' # root_page_id_ =>
          \E t \in Threads :
              /\ th'[t] # th[t]
              /\ header_page_id_ \in HeldWrite(t)]_vars

\* Root growth has set root_page_id_ while another thread is inside a call.
C17_Witness ==
    /\ root_page_id_ > 1
    /\ \E t \in Threads : th[t].pc = "idle" /\ th[t].op = "Insert" /\ th[t].ret
    /\ \E t \in Threads : th[t].pc \notin {"idle", "fault"}

(***************************************************************************)
(* C18.  During GetValue a thread holds at most two latches at any time,   *)
(* and on every step of the descent the latch of the child is acquired     *)
(* before the latch of the parent is released.                             *)
(***************************************************************************)
Held(t) == HeldRead(t) \cup HeldWrite(t)

C18_GetValueLatchCoupling ==
    /\ [](\A t \in Threads : th[t].op = "GetValue" => Cardinality(Held(t)) <= 2)
    /\ [][\A t \in Threads :
              (/\ th[t].op = "GetValue"
               /\ th'[t].pc # "idle"
               /\ Held(t) \ Held(t)' # {})
                  => (th'[t].guard \in Held(t) /\ th'[t].guard \in Held(t)')]_vars

\* GetValue holds the latches of an internal page and of its child.
C18_Witness ==
    /\ th[1].op = "GetValue"
    /\ IsPage(th[1].guard)
    /\ IsPage(th[1].fetched)
    /\ ~pages[th[1].guard].leaf
    /\ th[1].fetched \in Range(pages[th[1].guard].val)

(***************************************************************************)
(* C19.  During the descent of Insert the guards kept in the context are   *)
(* a contiguous suffix of the path from the root to the current page:      *)
(* right after a safe internal page (size < max_size - 1) is latched they  *)
(* are that page alone, and at the leaf they are the leaf and every        *)
(* internal page from the deepest safe one down, or the whole path when    *)
(* no internal page was safe.                                              *)
(***************************************************************************)
\* The pages of the descent for key from page x down to page target.
RECURSIVE DescentPath(_, _, _, _)
DescentPath(pgs, x, key, target) ==
    IF x = target \/ pgs[x].leaf
    THEN <<x>>
    ELSE <<x>> \o DescentPath(pgs, ChildFor(pgs[x], key), key, target)

SafeForInsert(page) == ~page.leaf /\ page.size < page.max - 1

\* The suffix of path that starts at its deepest safe internal page, or
\* all of it.
FromDeepestSafe(path) ==
    LET safe == {i \in 1..Len(path) : SafeForInsert(pages[path[i]])}
        first == IF safe = {} THEN 1 ELSE CHOOSE i \in safe : \A j \in safe : j <= i
    IN  SubSeq(path, first, Len(path))

C19_KeptGuardsAreSuffix ==
    \A t \in Threads :
        (th[t].pc \in {"ins_fetch", "ins_leaf"} /\ th[t].write_set_ # <<>>) =>
            LET ws == th[t].write_set_
                path == DescentPath(pages, th[t].ctx_root_page_id_, th[t].key, ws[Len(ws)])
            IN  ws = FromDeepestSafe(path)

\* Insert has released the root at a safe internal page below it and has
\* reached the leaf: the kept guards are a proper suffix of the path.
C19_Witness ==
    /\ th[1].pc = "ins_leaf"
    /\ Len(th[1].write_set_) = 2
    /\ th[1].write_set_[1] # th[1].ctx_root_page_id_
    /\ SafeForInsert(pages[th[1].write_set_[1]])

(***************************************************************************)
(* C20.  Every node page the tree creates is initialised with its kind and *)
(* with max_size equal to the leaf_max_size / internal_max_size given to   *)
(* the constructor, so after every Insert every node of the tree, the root *)
(* included, has size <= max_size - 1 and holds no more slots than the     *)
(* configured capacity.                                                    *)
(***************************************************************************)
\* The capacity the constructor was given for pages of this kind.
ConfiguredMaxSize(page) == IF page.leaf THEN leaf_max_size_ ELSE internal_max_size_

C20_NodesInitialisedAsConfigured ==
    Returned("Insert") =>
        \A p \in TreePages :
            /\ pages[p].max = ConfiguredMaxSize(pages[p])
            /\ pages[p].size <= pages[p].max - 1
            /\ pages[p].size <= ConfiguredMaxSize(pages[p])

(***************************************************************************)
(* C21.  Leaf split: splitting a leaf L of size s allocates R with         *)
(* R.next = the old L.next and L.next = R; L keeps its first s \div 2      *)
(* pairs, R holds the remaining pairs of L in order, key and value of      *)
(* every moved slot (slot 0 included), and the separator handed to the     *)
(* parent equals R.key_at(0).                                              *)
(***************************************************************************)
\* Thread t takes the step of Insert that splits its leaf.
SplitsLeaf(t) ==
    /\ th[t].pc = "ins_leaf"
    /\ th'[t].pc # "ins_leaf"
    /\ NumLeaves(pages') > NumLeaves(pages)

C21_LeafSplit ==
    [][\A t \in Threads :
          SplitsLeaf(t) =>
              LET l_id == th[t].write_set_[Len(th[t].write_set_)]
                  L == InsertAtLeaf(pages[l_id], th[t].key, th[t].value)
                  lsize == L.size \div 2
                  r_id == pages'[l_id].next
                  R == pages'[r_id]
              IN  /\ r_id \in (Len(pages) + 1)..Len(pages')
                  /\ R.leaf
                  /\ R.next = pages[l_id].next
                  /\ pages'[l_id].size = lsize
                  /\ pages'[l_id].key = SubSeq(L.key, 1, lsize)
                  /\ pages'[l_id].val = SubSeq(L.val, 1, lsize)
                  /\ R.size = L.size - lsize
                  /\ R.val = SubSeq(L.val, lsize + 1, L.size)
                  /\ R.key = SubSeq(L.key, lsize + 1, L.size)
                  /\ SplitLeaf(L, r_id, KeyAt(R, 0)).mid_key = KeyAt(R, 0)]_vars

(***************************************************************************)
(* C22.  Root growth: when after the split cascade the topmost retained    *)
(* node has size = max_size, Insert splits it and creates a new internal   *)
(* page with size 2, child 0 = the old root's page id, key 1 = the mid_key *)
(* of that split and child 1 = the new right sibling, then sets            *)
(* root_page_id to the new page under a re-acquired header write latch;    *)
(* when the topmost retained node has size < max_size, root_page_id is     *)
(* left unchanged.                                                         *)
(***************************************************************************)
\* The topmost retained page of thread t's Insert as the split cascade
\* leaves it (t is at the leaf, InsertAt found no duplicate).
TopAfterCascade(t) ==
    LET ws == th[t].write_set_
        leaf == ws[Len(ws)]
        inserted == [pages EXCEPT ![leaf] = InsertAtLeaf(pages[leaf], th[t].key, th[t].value)]
        c == Cascade(inserted, ws, Sentinel)
    IN  [id |-> c.write_set_[1], page |-> c.pages[c.write_set_[1]], allocated |-> Len(c.pages)]

\* Thread t takes the step of Insert from the leaf on, and writes.
InsertsAtLeaf(t) ==
    /\ th[t].pc = "ins_leaf"
    /\ th'[t].pc # "ins_leaf"
    /\ pages' # pages

C22_RootGrowth ==
    [][\A t \in Threads :
          /\ InsertsAtLeaf(t) =>
                LET top == TopAfterCascade(t)
                    new_root_id == top.allocated + 1
                    rpage_id == top.allocated + 2
                IN  IF top.page.size = top.page.max
                    THEN /\ th'[t].pc = "ins_root_header"
                         /\ th'[t].new_root_guard = new_root_id
                         /\ Len(pages') = rpage_id
                         /\ ~pages'[new_root_id].leaf
                         /\ pages'[new_root_id].size = 2
                         /\ ValueAt(pages'[new_root_id], 0) = root_page_id_
                         /\ KeyAt(pages'[new_root_id], 1)
                                = SplitPage(top.page, rpage_id, Sentinel).mid_key
                         /\ ValueAt(pages'[new_root_id], 1) = rpage_id
                         /\ pages'[root_page_id_] = SplitPage(top.page, rpage_id, Sentinel).lpage
                         /\ pages'[rpage_id].val = SplitPage(top.page, rpage_id, Sentinel).rpage.val
                         /\ root_page_id_' = root_page_id_
                    ELSE /\ top.page.size < top.page.max => th'[t].pc = "idle"
                         /\ th'[t].pc = "idle" => root_page_id_' = root_page_id_
          /\ th[t].pc = "ins_root_header" /\ th'[t].pc # "ins_root_header" =>
                /\ header_page_id_ \in HeldWrite(t)'
                /\ root_page_id_' = root_page_id_
          /\ th[t].pc = "ins_root_set" /\ th'[t].pc # "ins_root_set" =>
                /\ header_page_id_ \in HeldWrite(t)
                /\ root_page_id_' = th[t].new_root_guard]_vars

(***************************************************************************)
(* C23.  Internal split: splitting an internal node L of size s with       *)
(* lsize = s \div 2 returns mid_key = the key at slot lsize of L and does  *)
(* not store it as a routing key of R; children lsize..s-1 of L become     *)
(* children 0..s-lsize-1 of R, keys lsize+1..s-1 of L become keys          *)
(* 1..s-lsize-1 of R, L keeps slots 0..lsize-1 unchanged, and              *)
(* L.size = lsize, R.size = s - lsize.                                     *)
(***************************************************************************)
\* The k-th kept page of thread t's Insert as the split cascade leaves it
\* before splitting it, and the pages allocated up to then.
KeptAfterCascade(t, k) ==
    LET ws == th[t].write_set_
        leaf == ws[Len(ws)]
        inserted == [pages EXCEPT ![leaf] = InsertAtLeaf(pages[leaf], th[t].key, th[t].value)]
        c == Cascade(inserted, SubSeq(ws, k, Len(ws)), Sentinel)
    IN  [page |-> c.pages[ws[k]], allocated |-> Len(c.pages)]

\* The keys that the internal page routes to child with.
RoutingKeysTo(page, child) ==
    {KeyAt(page, i) : i \in {j \in 1..(page.size - 1) : ValueAt(page, j) = child}}

\* The routing keys of the internal page are strictly increasing.
StrictlyIncreasing(page) ==
    \A i \in 1..(page.size - 2) : KeyAt(page, i) < KeyAt(page, i + 1)

C23_InternalSplit ==
    [][\A t \in Threads :
          InsertsAtLeaf(t) =>
              \A k \in 1..(Len(th[t].write_set_) - 1) :
                  LET pre == KeptAfterCascade(t, k)
                      L == pre.page
                      s == L.size
                      lsize == s \div 2
                      r_id == IF k > 1 THEN pre.allocated + 1 ELSE pre.allocated + 2
                      R == pages'[r_id]
                      Lafter == pages'[th[t].write_set_[k]]
                      mid_keys == IF k > 1
                                  THEN RoutingKeysTo(KeptAfterCascade(t, k - 1).page, r_id)
                                  ELSE RoutingKeysTo(pages'[pre.allocated + 1], r_id)
                  IN  (k > 1 \/ L.size = L.max) =>
                          /\ mid_keys = {KeyAt(L, lsize)}
                          /\ KeyAt(R, 0) = Sentinel
                          /\ StrictlyIncreasing(L) =>
                                 \A i \in 1..(R.size - 1) : KeyAt(R, i) \notin mid_keys
                          /\ \A i \in 0..(s - lsize - 1) : ValueAt(R, i) = ValueAt(L, lsize + i)
                          /\ \A i \in 1..(s - lsize - 1) : KeyAt(R, i) = KeyAt(L, lsize + i)
                          /\ \A i \in 0..(lsize - 1) :
                                 /\ ValueAt(Lafter, i) = ValueAt(L, i)
                                 /\ KeyAt(Lafter, i) = KeyAt(L, i)
                          /\ Lafter.size = lsize
                          /\ R.size = s - lsize]_vars

\* Insert has split an internal page below the root and the root itself.
C23_Witness ==
    /\ th[1].op = "Insert"
    /\ th[1].pc = "ins_root_header"
    /\ Len(th[1].write_set_) = 1
    /\ ~pages[th[1].write_set_[1]].leaf
    /\ th[1].allocated = 4

(***************************************************************************)
(* C24.  BinaryFind on a node with strictly increasing keys returns the    *)
(* largest index r of the searchable range (0..size-1 for a leaf,          *)
(* 1..size-1 for an internal node) with key_at(r) <= key, and -1 for a     *)
(* leaf / 0 for an internal node when there is none; on an internal node   *)
(* the key of slot 0 is never read.                                        *)
(***************************************************************************)
\* The slots whose key the loop of BinaryFind reads.
RECURSIVE BinaryFindLoopReads(_, _, _, _)
BinaryFindLoopReads(page, key, l, r) ==
    IF l < r
    THEN LET mid == (l + r + 1) \div 2
         IN  {mid} \cup (IF comparator_(KeyAt(page, mid), key) # 1
                         THEN BinaryFindLoopReads(page, key, mid, r)
                         ELSE BinaryFindLoopReads(page, key, l, mid - 1))
    ELSE {}

\* The slots whose key BinaryFind reads, loop and epilogue.
BinaryFindLeafReads(leaf_page, key) ==
    LET r == BinaryFindLoop(leaf_page, key, 0, leaf_page.size - 1)
    IN  BinaryFindLoopReads(leaf_page, key, 0, leaf_page.size - 1)
            \cup (IF r >= 0 THEN {r} ELSE {})

BinaryFindInternalReads(internal_page, key) ==
    LET r == BinaryFindLoop(internal_page, key, 1, internal_page.size - 1)
    IN  BinaryFindLoopReads(internal_page, key, 1, internal_page.size - 1)
            \cup (IF r = -1 THEN {} ELSE {r})

\* The largest slot from first on whose key is at most key, or none.
LargestAtMost(page, key, first, none) ==
    LET at_most == {i \in first..(page.size - 1) : KeyAt(page, i) <= key}
    IN  IF at_most = {} THEN none ELSE CHOOSE i \in at_most : \A j \in at_most : j <= i

\* The keys of the slots from first on are strictly increasing.
IncreasingFrom(page, first) ==
    \A i \in first..(page.size - 2) : KeyAt(page, i) < KeyAt(page, i + 1)

\* The pages a search for key calls BinaryFind on, in a tree at rest.
SearchPath(key) ==
    IF IsPage(root_page_id_) /\ \A t \in Threads : th[t].pc = "idle"
    THEN Range(DescentPath(pages, root_page_id_, key, INVALID_PAGE_ID))
    ELSE {}

C24_BinaryFind ==
    \A key \in Keys :
        \A p \in SearchPath(key) :
            IF pages[p].leaf
            THEN IncreasingFrom(pages[p], 0) =>
                     BinaryFindLeaf(pages[p], key) = LargestAtMost(pages[p], key, 0, -1)
            ELSE IncreasingFrom(pages[p], 1) =>
                     /\ BinaryFindInternal(pages[p], key) = LargestAtMost(pages[p], key, 1, 0)
                     /\ 0 \notin BinaryFindInternalReads(pages[p], key)

(***************************************************************************)
(* C25.  Every key or value read that Insert, GetValue and Begin(key)      *)
(* perform on a node uses a slot index within 0..size-1 of that node; in   *)
(* particular inserting a key smaller than every key of its leaf reads no  *)
(* slot at index -1 before it writes the new pair at slot 0.               *)
(***************************************************************************)
\* The slots InsertAt reads on a leaf before it writes: BinaryFind, then
\* KeyAt(pos) for the duplicate test.
InsertAtLeafReads(page, key) ==
    BinaryFindLeafReads(page, key) \cup {BinaryFindLeaf(page, key)}

\* The slots GetValue and Begin(key) read on a leaf: BinaryFind, then
\* KeyAt(pos), ValueAt(pos) when pos is not negative.
LookupLeafReads(page, key) ==
    LET pos == BinaryFindLeaf(page, key)
    IN  BinaryFindLeafReads(page, key) \cup (IF pos < 0 THEN {} ELSE {pos})

C25_ReadsWithinSize ==
    /\ \A t \in Threads :
           th[t].pc = "ins_leaf" =>
               LET page == pages[th[t].write_set_[Len(th[t].write_set_)]]
               IN  InsertAtLeafReads(page, th[t].key) \subseteq 0..(page.size - 1)
    /\ \A key \in Keys :
           \A p \in SearchPath(key) :
               (IF pages[p].leaf
                THEN LookupLeafReads(pages[p], key)
                ELSE BinaryFindInternalReads(pages[p], key)) \subseteq 0..(pages[p].size - 1)

====
